---------------------------- MODULE Spec2Model ----------------------------
(***************************************************************************)
(* A model of two parts of the isometric engine:                           *)
(*                                                                         *)
(*   - isometric::world (world.cpp): update, render, the selection         *)
(*     accessors, the camera list and the game-object list;                *)
(*   - the glyph atlas builder of simple_bitmap_font.cpp: create, with      *)
(*     generate_glyph_surfaces, generate_glyph_srcrects and                *)
(*     generate_glyph_textures, and destroy.                               *)
(*                                                                         *)
(* tile_map, tile, camera, transform and input are collaborators whose     *)
(* code is not part of the sources; what world.cpp needs of them is        *)
(* modelled from their use in world.cpp and from the specification.        *)
(***************************************************************************)
EXTENDS Integers, Sequences, FiniteSets, TLC

VARIABLES
    \* ---- tile_map (shared with the world) ----
    map,                  \* the map's configuration: sizes, layer pools, selection image
    tiles,                \* tiles[<<x, y, layer>>]: the image id of a tile on a layer
    \* ---- world ----
    cameras,              \* world::cameras, in insertion order
    objects,              \* world::objects, in insertion order
    selected_world_tile,  \* world::selected_world_tile
    update_called,        \* world::update_called
    transform_camera,     \* the camera held by world::transform (0: nullptr)
    mouse_position,       \* input::mouse_position()
    \* ---- what the last step did (observation; empty unless it was a render) ----
    last_call,            \* the step taken last: a member function of world, or "game"
    warned,               \* the render() wrote the WARN line
    calls,                \* renderer and game-object calls of the render(), in order
    tile_reads,           \* the <<x, y>> the render() passed to map->get_tile
    consulted,            \* cells for which it called get_random_layer_default_image
    crashed,              \* the process ended in a null tile dereference
    \* ---- simple_bitmap_font ----
    font_pc,              \* position inside simple_bitmap_font::create
    font_glyphs,          \* font_info.glyphs, in iteration order
    font_textures         \* font_info.textures

world_vars == <<map, tiles, cameras, objects, selected_world_tile, update_called,
                transform_camera, mouse_position, last_call, warned, calls,
                tile_reads, consulted, crashed>>
font_vars == <<font_pc, font_glyphs, font_textures>>
vars == <<world_vars, font_vars>>

-----------------------------------------------------------------------------
(* Values *)

\* std::numeric_limits<int>::max()
INT_MAX == 2147483647

\* "no image on this layer" (tile::has_image is false)
NoImage == 0

\* map->get_tile(...) == nullptr
NoTile == <<>>

\* nullptr in the camera list sense: no camera
NoCamera == 0

Min(a, b) == IF a < b THEN a ELSE b
Max(a, b) == IF a > b THEN a ELSE b
Abs(a) == IF a < 0 THEN -a ELSE a

\* One entry of the log of calls a render() makes on its collaborators.
Call(op, x, y, layer, arg) ==
    [op |-> op, x |-> x, y |-> y, layer |-> layer, arg |-> arg]

-----------------------------------------------------------------------------
(* Bounds of the world model *)

\* The maps a world is built on: tile-grid size and tile pixel size.
MapSizes == { [width |-> 2, height |-> 2, tile_width |-> 4, tile_height |-> 2] }

\* Maps that are wider, or taller, than the visible range of a small viewport.
WideMapSizes ==
    { [width |-> 8, height |-> 2, tile_width |-> 4, tile_height |-> 2],
      [width |-> 2, height |-> 8, tile_width |-> 2, tile_height |-> 4] }

\* Layers, in definition order (layer_id + 1).
Layers == 1..2

\* The image ids of a layer's default-image pool (an empty pool: no defaults).
LayerPools == { <<{}, {}>>, <<{}, {3, 4}>> }

\* Explicit images a map starts with: none, or one image on one cell.
ExplicitImages == { <<>>, <<<<1, 1, 1>>, 1>>, <<<<0, 0, 2>>, 2>> }

\* Camera viewport sizes in pixels, <<width, height>>.
ViewportSizes == { <<0, 0>>, <<8, 4>> }

\* Viewport sizes for which (viewport + tile) is, and is not, a multiple of
\* half the tile size.
OddViewportSizes == { <<0, 0>>, <<1, 3>>, <<5, 5>>, <<8, 4>> }

\* Camera scroll positions in tiles, <<current_x, current_y>>: inside the map,
\* negative, and at or past the map edge.
ScrollPositions == { <<0, 0>>, <<1, 0>>, <<-1, 0>>, <<0, -4>>, <<2, 1>> }

\* Cursor positions in viewport pixels.
MousePositions == { <<2, 1>>, <<2, 2>>, <<40, 40>> }

\* The game objects there are, and how many a world holds at most.
GameObjects == { 1, 2 }
MaxObjects == 2

\* The most cameras a world holds.
MaxCameras == 2

\* Arguments of set_selection.
SelectionPoints == { <<0, 0>>, <<INT_MAX, 1>>, <<1, INT_MAX>>, <<INT_MAX, INT_MAX>> }

\* Out-of-range float-to-unsigned conversions are undefined behaviour; the
\* builds in use either saturate to 0 or wrap modulo 2^32.  A write through a
\* null tile pointer either ends the process or goes unnoticed.
CastOutcomes == { "zero", "wrap" }
NullWriteOutcomes == { "fault", "ignored" }
UBOutcomes == [cast : CastOutcomes, null_write : NullWriteOutcomes]

\* The outcomes to tell apart for a render through camera cam: with a scroll
\* position that is not negative every conversion is in range (the float cast
\* at lines 88-96 is then positive, and so is every loop value), so that the
\* outcomes do not differ.
UBOutcomesFor(cam) ==
    IF cam.current_x < 0 \/ cam.current_y < 0 THEN UBOutcomes
    ELSE { [cast |-> "zero", null_write |-> "fault"] }

\* The (tile, layer) cells of the map's grid.
Cells == (0..(map.width - 1)) \X (0..(map.height - 1)) \X Layers

-----------------------------------------------------------------------------
(* tile_map and tile, as world.cpp uses them *)

InBounds(ix, iy) == ix >= 0 /\ ix < map.width /\ iy >= 0 /\ iy < map.height

\* map->get_tile(x, y): the tile, or nullptr outside the grid.
get_tile(ix, iy) == IF InBounds(ix, iy) THEN <<ix, iy>> ELSE NoTile

\* A has_image that looks at the first layer whatever the layer asked for.
has_image_first_layer(t, tile, layer) ==
    tile # NoTile /\ t[<<tile[1], tile[2], 1>>] # NoImage

\* current_tile && current_tile->has_image(layer_id)
has_image(t, tile, layer) ==
    tile # NoTile /\ t[<<tile[1], tile[2], layer>>] # NoImage

\* map->layer_has_default_images(layer_id)
layer_has_default_images(layer) == map.pools[layer] # {}

-----------------------------------------------------------------------------
(* world: cameras and selection *)

\* A get_main_camera whose loop does not stop at the first enabled camera:
\* the last enabled one is returned.
get_last_enabled_camera(cams) ==
    IF \E i \in 1..Len(cams) : cams[i].enabled
    THEN CHOOSE i \in 1..Len(cams) :
            /\ cams[i].enabled
            /\ \A j \in (i + 1)..Len(cams) : ~cams[j].enabled
    ELSE NoCamera

\* A get_main_camera that does not look at is_enabled().
get_first_camera(cams) == IF Len(cams) > 0 THEN 1 ELSE NoCamera

\* Lines 49-52: the loop over `cameras`, from the i-th camera on; it returns
\* at the first camera whose is_enabled() is true.
RECURSIVE CameraLoop(_, _)
CameraLoop(cams, i) ==
    IF i > Len(cams) THEN NoCamera
    ELSE IF cams[i].enabled THEN i
    ELSE CameraLoop(cams, i + 1)

\* world::get_main_camera: the index of the camera returned; 0 for nullptr.
get_main_camera(cams) == CameraLoop(cams, 1)

\* world::has_selection
has_selection(sel) == sel[1] # INT_MAX /\ sel[2] # INT_MAX

\* world::get_selection
get_selection == selected_world_tile

\* The value the constructor and reset_selection store.
Sentinel == <<INT_MAX, INT_MAX>>

-----------------------------------------------------------------------------
(* render: the visible tile range *)

\* Truncation toward zero of num / den (den > 0), as a float-to-integer
\* conversion does.
TruncDiv(num, den) == IF num >= 0 THEN num \div den ELSE -((-num) \div den)

\* static_cast<unsigned>(f) for the float f = num / den.  A value at or below
\* -1 is out of range: the build saturates to 0 or wraps to 2^32 + trunc(f).
\* TLC's integers are 32 bits wide, so the wrapped value is kept without its
\* top bit, 2^31 + trunc(f): as the real one, it is no less than 2^31 - 3 here
\* and so above every map dimension.
FloatToUnsigned(num, den, ub) ==
    LET t == TruncDiv(num, den)
    IN  IF t >= 0 THEN t
        ELSE IF ub.cast = "zero" THEN 0
        ELSE INT_MAX + (1 + t)

\* The float cast to unsigned at lines 88-96:
\*   current + (viewport + tile) / (tile / 2.0f) + 1
\* over the common denominator `tile`.
MaxTilesFloatNum(current, viewport, tile) ==
    (current + 1) * tile + 2 * (viewport + tile)

\* max_tiles_horiz / max_tiles_vert after std::min with the map dimension.
MaxTiles(current, viewport, tile, map_dim, ub) ==
    Min(FloatToUnsigned(MaxTilesFloatNum(current, viewport, tile), tile, ub), map_dim)

\* The values the loop variable of `for (float t = current; t < max; t++)` takes.
LoopValues(current, max) ==
    [i \in 1..Max(0, max - current) |-> current + i - 1]

-----------------------------------------------------------------------------
(* transform, as the specification describes it *)

\* The scroll position the transform works with: that of the camera update()
\* stored in it, (0, 0) when it holds none.
TransformScroll ==
    IF transform_camera = NoCamera THEN <<0, 0>>
    ELSE <<cameras[transform_camera].current_x, cameras[transform_camera].current_y>>

\* transform::world_tile_to_viewport_pixels: the isometric projection of a
\* tile index to the top-left anchor of its sprite, in viewport pixels.
world_tile_to_viewport_pixels(tp) ==
    LET dx == tp[1] - TransformScroll[1]
        dy == tp[2] - TransformScroll[2]
    IN  << (dx - dy) * (map.tile_width \div 2), (dx + dy) * (map.tile_height \div 2) >>

\* transform::tile_hittest_by_viewport: the cursor lies in the diamond
\* inscribed in the tile_width x tile_height box anchored at screen_pos.
tile_hittest_by_viewport(screen_pos, mouse) ==
    LET hw == map.tile_width \div 2
        hh == map.tile_height \div 2
    IN  Abs(mouse[1] - (screen_pos[1] + hw)) * hh
          + Abs(mouse[2] - (screen_pos[2] + hh)) * hw <= hw * hh

-----------------------------------------------------------------------------
(* render: the tile loop *)

\* Line 120: the tile has no image on the layer and the layer has defaults.
WantsDefault(t, tile, layer) ==
    ~has_image(t, tile, layer) /\ layer_has_default_images(layer)

\* Lines 124-125 on a tile of the grid: the image id stored on the tile.
CacheDefault(t, cell, image) == [t EXCEPT ![cell] = image]

\* A highlight draw that leaves the selection image's alpha at 90.
HighlightCallsAlphaKept(tp) ==
    << Call("alpha", tp[1], tp[2], 1, 90),
       Call("highlight", tp[1], tp[2], 1, 0) >>

\* Lines 160-178: the semi-transparent selection image over the tile.
HighlightCalls(tp) ==
    << Call("alpha", tp[1], tp[2], 1, 90),
       Call("highlight", tp[1], tp[2], 1, 0),
       Call("alpha", tp[1], tp[2], 1, 255) >>

\* Lines 113-179 for one tile, from `layer` on.  st holds what the render has
\* done so far; tp is the loop's <<tile_x, tile_y>>.  A tile draw is logged
\* with the indices of the tile drawn, a hit test and a highlight draw with
\* the tile_point they are made for.
RECURSIVE RenderLayers(_, _, _, _, _, _, _)
RenderLayers(st, tp, layer, is_selected, mouse, rnd, ub) ==
    LET ix == FloatToUnsigned(tp[1], 1, ub)
        iy == FloatToUnsigned(tp[2], 1, ub)
        tile == get_tile(ix, iy)
        cell == <<ix, iy, layer>>
        explicit == has_image(st.tiles, tile, layer)
        default == ~explicit /\ WantsDefault(st.tiles, tile, layer)
    IN  IF layer > Len(map.pools) \/ st.crashed THEN st
        ELSE IF ~explicit /\ ~default
        THEN RenderLayers(st, tp, layer + 1, is_selected, mouse, rnd, ub)
        ELSE IF default /\ tile = NoTile /\ ub.null_write = "fault"
        THEN [st EXCEPT !.consulted = @ \cup {cell}, !.crashed = TRUE]
        ELSE
            LET tiles1 == IF default /\ tile # NoTile
                          THEN CacheDefault(st.tiles, cell, rnd[cell])
                          ELSE st.tiles
                consulted1 == IF default THEN st.consulted \cup {cell}
                              ELSE st.consulted
                screen_pos == world_tile_to_viewport_pixels(tp)
                calls1 == IF has_image(tiles1, tile, layer)
                          THEN Append(st.calls,
                                      Call("tile", ix, iy, layer, tiles1[cell]))
                          ELSE st.calls
                hit == tile_hittest_by_viewport(screen_pos, mouse)
                calls_hit == Append(calls1, Call("hittest", tp[1], tp[2], layer, hit))
                sel1 == IF hit THEN tp ELSE st.sel
                is_selected1 == is_selected \/ hit
                calls2 == IF layer = 1 /\ is_selected1 /\ map.selection_image
                          THEN calls_hit \o HighlightCalls(tp)
                          ELSE calls_hit
            IN  RenderLayers([st EXCEPT !.tiles = tiles1,
                                        !.consulted = consulted1,
                                        !.calls = calls2,
                                        !.sel = sel1],
                             tp, layer + 1, is_selected1, mouse, rnd, ub)

\* Lines 101-181: the tiles of `visits`, from the i-th on, in order.
RECURSIVE RenderTiles(_, _, _, _, _, _)
RenderTiles(st, visits, i, mouse, rnd, ub) ==
    IF i > Len(visits) \/ st.crashed THEN st
    ELSE
        LET tp == visits[i]
            read == << FloatToUnsigned(tp[1], 1, ub), FloatToUnsigned(tp[2], 1, ub) >>
            st1 == [st EXCEPT !.reads = @ \cup {read}]
        IN  RenderTiles(RenderLayers(st1, tp, 1, FALSE, mouse, rnd, ub),
                        visits, i + 1, mouse, rnd, ub)

\* Nested loops with the columns outside and the rows inside.
VisitsColumnMajor(cam, ub) ==
    LET max_tiles_horiz == MaxTiles(cam.current_x, cam.width, map.tile_width,
                                    map.width, ub)
        max_tiles_vert == MaxTiles(cam.current_y, cam.height, map.tile_height,
                                   map.height, ub)
        xs == LoopValues(cam.current_x, max_tiles_horiz)
        ys == LoopValues(cam.current_y, max_tiles_vert)
    IN  [k \in 1..(Len(xs) * Len(ys)) |->
            << xs[((k - 1) \div Len(ys)) + 1], ys[((k - 1) % Len(ys)) + 1] >>]

\* The <<tile_x, tile_y>> the two nested loops produce for a camera, rows outer.
Visits(cam, ub) ==
    LET max_tiles_horiz == MaxTiles(cam.current_x, cam.width, map.tile_width,
                                    map.width, ub)
        max_tiles_vert == MaxTiles(cam.current_y, cam.height, map.tile_height,
                                   map.height, ub)
        xs == LoopValues(cam.current_x, max_tiles_horiz)
        ys == LoopValues(cam.current_y, max_tiles_vert)
    IN  [k \in 1..(Len(xs) * Len(ys)) |->
            << xs[((k - 1) % Len(xs)) + 1], ys[((k - 1) \div Len(xs)) + 1] >>]

\* The cells for which the render will ask the map for a random default image
\* and store it: the cells of the grid it visits that have no image on a
\* layer with a pool.
DefaultsNeeded(visits, ub) ==
    { c \in Cells :
        /\ \E k \in 1..Len(visits) :
              /\ FloatToUnsigned(visits[k][1], 1, ub) = c[1]
              /\ FloatToUnsigned(visits[k][2], 1, ub) = c[2]
        /\ WantsDefault(tiles, <<c[1], c[2]>>, c[3]) }

\* map->get_random_layer_default_image for each of these cells: any image of
\* the layer's pool.
RandomChoices(needed) ==
    { f \in [needed -> UNION { map.pools[l] : l \in Layers }] :
        \A c \in needed : f[c] \in map.pools[c[3]] }

\* Lines 183-187: on_render of every game object, in list order.
ObjectCalls == [i \in 1..Len(objects) |-> Call("on_render", 0, 0, 0, objects[i])]

-----------------------------------------------------------------------------
(* simple_bitmap_font: the glyph atlas builder *)

\* constexpr int max_texture_width = 2048, max_texture_height = 2048;
max_texture_width == 2048
max_texture_height == 2048

\* The most glyphs a font is created with.
MaxGlyphs == 3

\* The sizes <<w, h>> of the surfaces TTF_RenderGlyph_Blended returns: empty
\* ones, small and large ones, and ones larger than a page.
GlyphWidths == { 0, 1000, 2000, 3000 }
GlyphHeights == { 0, 10, 1100, 2040 }
GlyphSizes == (GlyphWidths \X GlyphHeights) \cup { <<10, 3000>> }

\* Sizes at the edges: glyphs that are half a page or a whole page wide or
\* high, beside smaller ones.
EdgeGlyphSizes ==
    { <<1024, 1024>>, <<1024, 10>>, <<2048, 1024>>, <<1000, 2048>>, <<1000, 1000>> }

\* SDL_Rect
Rect(x, y, w, h) == [x |-> x, y |-> y, w |-> w, h |-> h]

\* Lines 104-108: the glyph_info of a rendered glyph.
NewGlyph(size) ==
    [w |-> size[1], h |-> size[2], surface |-> TRUE,
     srcrect |-> Rect(0, 0, size[1], size[2]), texture_index |-> 0]

\* A row height that follows the last glyph instead of the tallest.
RowHeightOfLast(row_height, h) == h

\* Lines 129-130: the current row's height is that of its tallest glyph.
RowHeight(row_height, h) == IF h > row_height THEN h ELSE row_height

\* Line 133: the farthest x-extent has been reached.
StartsNewRow(x, w) == x + w >= max_texture_width

\* Line 141: the farthest y-extent has been reached.
StartsNewTexture(y, h) == y + h >= max_texture_height

\* Lines 142-147 and 167-172: a page whose texture is not created yet.
NewTexture(w, h) == [texture |-> FALSE, rect |-> Rect(0, 0, w, h)]

\* Lines 166: the last page is recorded when it has an area.
RecordsLastTexture(texture_width, texture_height) ==
    texture_width > 0 /\ texture_height > 0

\* Lines 128-162: one iteration of the loop over font_info.glyphs, on the
\* i-th glyph.  st holds the function's locals and font_info.
PlaceGlyph(st, i) ==
    LET g == st.glyphs[i]
        row_height1 == RowHeight(st.row_height, g.h)
        wraps == StartsNewRow(st.x, g.w)
        x1 == IF wraps THEN 0 ELSE st.x
        y1 == IF wraps THEN st.y + row_height1 ELSE st.y
        row_height2 == IF wraps THEN g.h ELSE row_height1
        breaks == StartsNewTexture(y1, g.h)
        textures1 == IF breaks
                     THEN Append(st.textures,
                                 NewTexture(st.texture_width, st.texture_height))
                     ELSE st.textures
        texture_index1 == IF breaks THEN st.texture_index + 1 ELSE st.texture_index
        texture_width1 == IF breaks THEN 0 ELSE st.texture_width
        texture_height1 == IF breaks THEN 0 ELSE st.texture_height
        x2 == IF breaks THEN 0 ELSE x1
        y2 == IF breaks THEN 0 ELSE y1
        x3 == x2 + g.w
    IN  [glyphs |-> [st.glyphs EXCEPT ![i].srcrect = Rect(x2, y2, g.w, g.h),
                                      ![i].texture_index = texture_index1],
         textures |-> textures1,
         texture_index |-> texture_index1,
         x |-> x3, y |-> y2, row_height |-> row_height2,
         texture_width |-> IF x3 > texture_width1 THEN x3 ELSE texture_width1,
         texture_height |-> IF y2 + row_height2 > texture_height1
                            THEN y2 + row_height2 ELSE texture_height1]

\* Lines 124-163: the loop, from the i-th glyph on.
RECURSIVE PlaceGlyphs(_, _)
PlaceGlyphs(st, i) ==
    IF i > Len(st.glyphs) THEN st ELSE PlaceGlyphs(PlaceGlyph(st, i), i + 1)

\* generate_glyph_srcrects, lines 113-174: font_info afterwards.
generate_glyph_srcrects(glyphs, textures) ==
    IF textures # <<>> \/ glyphs = <<>>
    THEN [glyphs |-> glyphs, textures |-> textures]
    ELSE
        LET st == PlaceGlyphs([glyphs |-> glyphs, textures |-> textures,
                               texture_index |-> 0, x |-> 0, y |-> 0,
                               row_height |-> 0,
                               texture_width |-> 0, texture_height |-> 0], 1)
        IN  [glyphs |-> st.glyphs,
             textures |-> IF RecordsLastTexture(st.texture_width, st.texture_height)
                          THEN Append(st.textures,
                                      NewTexture(st.texture_width, st.texture_height))
                          ELSE st.textures]

\* All sequences over S of length at most n.
SeqsUpTo(S, n) == UNION { [1..k -> S] : k \in 0..n }

\* create, line 68: generate_glyph_surfaces (lines 92-111).  The glyphs whose
\* rendering succeeds get an entry, of the size the font renders them at, one
\* of size_set.
GenerateGlyphSurfacesOf(size_set) ==
    /\ font_pc = "new"
    /\ \E sizes \in SeqsUpTo(size_set, MaxGlyphs) :
          font_glyphs' = [k \in 1..Len(sizes) |-> NewGlyph(sizes[k])]
    /\ font_pc' = "surfaces"
    /\ UNCHANGED font_textures
    /\ UNCHANGED world_vars

\* generate_glyph_surfaces on a font with glyphs of the sizes of GlyphSizes.
GenerateGlyphSurfaces == GenerateGlyphSurfacesOf(GlyphSizes)

\* generate_glyph_surfaces on a font with glyphs of the sizes of EdgeGlyphSizes.
GenerateEdgeGlyphSurfaces == GenerateGlyphSurfacesOf(EdgeGlyphSizes)

\* create, line 69: generate_glyph_srcrects.
GenerateGlyphSrcrects ==
    /\ font_pc = "surfaces"
    /\ LET info == generate_glyph_srcrects(font_glyphs, font_textures)
       IN  /\ font_glyphs' = info.glyphs
           /\ font_textures' = info.textures
    /\ font_pc' = "srcrects"
    /\ UNCHANGED world_vars

\* atlas_surfaces[texture_index] with an index past the end of the vector is
\* undefined behaviour: the read gives a null pointer, or a stray pointer that
\* SDL_BlitSurface rejects, or the process ends.
OutOfRangeOutcomes == { "null", "stray", "fault" }

\* Lines 198-214: the loop over font_info.glyphs, from the i-th glyph on, with
\* free_glyph_surfaces = true.  surfaces[p] tells whether the surface of page
\* p was created; st holds font_info.glyphs and whether the process ended.
RECURSIVE BlitGlyphs(_, _, _, _)
BlitGlyphs(st, i, surfaces, oob) ==
    IF i > Len(st.glyphs) \/ st.fault THEN st
    ELSE
        LET glyph == st.glyphs[i]
            page == glyph.texture_index + 1
            in_range == page <= Len(surfaces)
            dst == IF in_range THEN surfaces[page] ELSE oob = "stray"
        IN  IF ~in_range /\ oob = "fault" THEN [st EXCEPT !.fault = TRUE]
            ELSE IF dst /\ glyph.surface
            THEN BlitGlyphs([st EXCEPT !.glyphs[i].surface = FALSE],
                            i + 1, surfaces, oob)
            ELSE BlitGlyphs(st, i + 1, surfaces, oob)

\* Lines 216-225: a page whose surface exists gets the texture made from it,
\* which may be null; another page keeps its null texture.
CreateTextures(textures, surfaces, created) ==
    [p \in 1..Len(textures) |->
        [textures[p] EXCEPT !.texture = surfaces[p] /\ created[p]]]

\* create, line 70: generate_glyph_textures with free_glyph_surfaces = true,
\* for every outcome of SDL_CreateRGBSurface and SDL_CreateTextureFromSurface.
GenerateGlyphTextures ==
    /\ font_pc = "srcrects"
    /\ \E surfaces \in [1..Len(font_textures) -> BOOLEAN],
          created \in [1..Len(font_textures) -> BOOLEAN],
          oob \in OutOfRangeOutcomes :
          LET st == BlitGlyphs([glyphs |-> font_glyphs, fault |-> FALSE], 1,
                               surfaces, oob)
          IN  /\ font_glyphs' = st.glyphs
              /\ IF st.fault
                 THEN /\ font_pc' = "fault"
                      /\ UNCHANGED font_textures
                 ELSE /\ font_pc' = "created"
                      /\ font_textures' = CreateTextures(font_textures, surfaces, created)
    /\ UNCHANGED world_vars

\* simple_bitmap_font::destroy
Destroy ==
    /\ font_pc = "created"
    /\ font_textures' = <<>>
    /\ font_glyphs' = <<>>
    /\ font_pc' = "destroyed"
    /\ UNCHANGED world_vars

-----------------------------------------------------------------------------
(* world: the member functions *)

\* A step that is no render leaves nothing in the render observations.
NoRenderObserved ==
    /\ warned' = FALSE
    /\ calls' = <<>>
    /\ tile_reads' = {}
    /\ consulted' = {}

\* world::update
Update ==
    /\ ~crashed
    /\ transform_camera' = get_main_camera(cameras)
    /\ update_called' = TRUE
    /\ last_call' = "update"
    /\ NoRenderObserved
    /\ UNCHANGED <<map, tiles, cameras, objects, selected_world_tile,
                   mouse_position, crashed>>
    /\ UNCHANGED font_vars

\* world::render with a main camera: lines 78-194.
RenderWithCamera(cam, visits, rnd, ub) ==
    LET st0 == [tiles |-> tiles, sel |-> selected_world_tile,
                calls |-> << Call("clip", 0, 0, 0, 1) >>,
                reads |-> {}, consulted |-> {}, crashed |-> FALSE]
        st == RenderTiles(st0, visits, 1, mouse_position, rnd, ub)
    IN  /\ tiles' = st.tiles
        /\ selected_world_tile' = st.sel
        /\ tile_reads' = st.reads
        /\ consulted' = st.consulted
        /\ crashed' = st.crashed
        /\ IF st.crashed
           THEN /\ calls' = st.calls
                /\ UNCHANGED update_called
           ELSE /\ calls' = st.calls \o ObjectCalls \o << Call("clip", 0, 0, 0, 0) >>
                /\ update_called' = FALSE

\* world::render
Render ==
    /\ ~crashed
    /\ warned' = ~update_called
    /\ last_call' = "render"
    /\ LET camera == get_main_camera(cameras)
       IN  IF camera = NoCamera
           THEN /\ calls' = <<>>
                /\ tile_reads' = {}
                /\ consulted' = {}
                /\ UNCHANGED <<tiles, selected_world_tile, update_called, crashed>>
           ELSE \E ub \in UBOutcomesFor(cameras[camera]) :
                    LET visits == Visits(cameras[camera], ub)
                    IN  \E rnd \in RandomChoices(DefaultsNeeded(visits, ub)) :
                            RenderWithCamera(cameras[camera], visits, rnd, ub)
    /\ UNCHANGED <<map, cameras, objects, transform_camera, mouse_position>>
    /\ UNCHANGED font_vars

\* world::set_selection
SetSelection ==
    /\ ~crashed
    /\ \E tile_point \in SelectionPoints : selected_world_tile' = tile_point
    /\ last_call' = "set_selection"
    /\ NoRenderObserved
    /\ UNCHANGED <<map, tiles, cameras, objects, update_called, transform_camera,
                   mouse_position, crashed>>
    /\ UNCHANGED font_vars

\* world::reset_selection
ResetSelection ==
    /\ ~crashed
    /\ selected_world_tile' = Sentinel
    /\ last_call' = "reset_selection"
    /\ NoRenderObserved
    /\ UNCHANGED <<map, tiles, cameras, objects, update_called, transform_camera,
                   mouse_position, crashed>>
    /\ UNCHANGED font_vars

\* world::add_object, lines 246-253 (the objects are never null here).
AddObject ==
    /\ ~crashed
    /\ Len(objects) < MaxObjects
    /\ \E obj \in GameObjects : objects' = Append(objects, obj)
    /\ last_call' = "add_object"
    /\ NoRenderObserved
    /\ UNCHANGED <<map, tiles, cameras, selected_world_tile, update_called,
                   transform_camera, mouse_position, crashed>>
    /\ UNCHANGED font_vars

\* std::list::remove: every element equal to obj goes, the order of the rest stays.
ListRemove(list, obj) == SelectSeq(list, LAMBDA o : o # obj)

\* world::remove_object, lines 255-261.
RemoveObject ==
    /\ ~crashed
    /\ \E obj \in GameObjects : objects' = ListRemove(objects, obj)
    /\ last_call' = "remove_object"
    /\ NoRenderObserved
    /\ UNCHANGED <<map, tiles, cameras, selected_world_tile, update_called,
                   transform_camera, mouse_position, crashed>>
    /\ UNCHANGED font_vars

-----------------------------------------------------------------------------
(* The game around the world: cameras and the cursor *)

\* A camera as the game creates it.
NewCamera(size) ==
    [enabled |-> TRUE, current_x |-> 0, current_y |-> 0,
     width |-> size[1], height |-> size[2]]

\* The game enables or disables a camera of the world (camera::set_enabled).
SetCameraEnabled ==
    /\ ~crashed
    /\ \E i \in 1..Len(cameras) :
          cameras' = [cameras EXCEPT ![i].enabled = ~cameras[i].enabled]
    /\ last_call' = "game"
    /\ NoRenderObserved
    /\ UNCHANGED <<map, tiles, objects, selected_world_tile, update_called,
                   transform_camera, mouse_position, crashed>>
    /\ UNCHANGED font_vars

\* The game hands the world one more camera, which goes to the end of the
\* camera list.
AddCamera ==
    /\ ~crashed
    /\ Len(cameras) < MaxCameras
    /\ cameras' = Append(cameras, NewCamera(<<8, 4>>))
    /\ last_call' = "game"
    /\ NoRenderObserved
    /\ UNCHANGED <<map, tiles, objects, selected_world_tile, update_called,
                   transform_camera, mouse_position, crashed>>
    /\ UNCHANGED font_vars

\* The game scrolls a camera of the world.
MoveCamera ==
    /\ ~crashed
    /\ \E i \in 1..Len(cameras), p \in ScrollPositions :
          /\ <<cameras[i].current_x, cameras[i].current_y>> # p
          /\ cameras' = [cameras EXCEPT ![i].current_x = p[1], ![i].current_y = p[2]]
    /\ last_call' = "game"
    /\ NoRenderObserved
    /\ UNCHANGED <<map, tiles, objects, selected_world_tile, update_called,
                   transform_camera, mouse_position, crashed>>
    /\ UNCHANGED font_vars

\* The user moves the cursor.
MoveMouse ==
    /\ ~crashed
    /\ \E p \in MousePositions : p # mouse_position /\ mouse_position' = p
    /\ last_call' = "game"
    /\ NoRenderObserved
    /\ UNCHANGED <<map, tiles, cameras, objects, selected_world_tile,
                   update_called, transform_camera, crashed>>
    /\ UNCHANGED font_vars

-----------------------------------------------------------------------------
(* world: construction *)

\* The tiles of a map whose only images are the explicit ones of `ex`.
InitialTiles(size, ex) ==
    [c \in (0..(size.width - 1)) \X (0..(size.height - 1)) \X Layers |->
        IF ex # <<>> /\ ex[1] = c THEN ex[2] ELSE NoImage]

\* world::world, lines 32-45, on a map of one of the given sizes, with one of
\* the given pools and explicit images, and on a main camera with one of the
\* given viewports
\* (or on nullptr, when with_null is true), followed by the add_object calls
\* of the game's set-up, which leave one of the given object lists.
InitWorldOn(map_sizes, pool_set, explicit_set, sel_img_set, viewport_set, with_null, object_lists) ==
    /\ \E size \in map_sizes, pools \in pool_set, sel_img \in sel_img_set :
          /\ map = [width |-> size.width, height |-> size.height,
                    tile_width |-> size.tile_width, tile_height |-> size.tile_height,
                    pools |-> pools, selection_image |-> sel_img]
          /\ \E ex \in explicit_set : tiles = InitialTiles(size, ex)
    /\ \E size \in viewport_set :
          cameras \in { << NewCamera(size) >> } \cup (IF with_null THEN { <<>> } ELSE {})
    /\ transform_camera = IF cameras = <<>> THEN NoCamera ELSE 1
    /\ objects \in object_lists
    /\ selected_world_tile = Sentinel
    /\ update_called = FALSE
    /\ mouse_position = <<2, 2>>
    /\ last_call = "world"
    /\ warned = FALSE
    /\ calls = <<>>
    /\ tile_reads = {}
    /\ consulted = {}
    /\ crashed = FALSE

\* world::world on the 2x2 map.
InitWorld(pool_set, explicit_set, sel_img_set, viewport_set, with_null, object_lists) ==
    InitWorldOn(MapSizes, pool_set, explicit_set, sel_img_set, viewport_set,
                with_null, object_lists)

\* A font object on which create() has not run yet.
InitFont ==
    /\ font_pc = "new"
    /\ font_glyphs = <<>>
    /\ font_textures = <<>>

-----------------------------------------------------------------------------
(* Specifications of the world *)

\* The frame loop: update and render on any map, with or without game
\* objects, while the game enables and disables the camera and the cursor
\* moves.
Init ==
    /\ InitWorld(LayerPools, ExplicitImages, BOOLEAN, { <<8, 4>> }, TRUE,
                 { <<>>, <<1, 2>> })
    /\ InitFont

Next ==
    \/ Update
    \/ Render
    \/ SetCameraEnabled
    \/ MoveMouse

Spec == Init /\ [][Next]_vars

\* Scrolling: update and render while the game scrolls the camera anywhere
\* in ScrollPositions, on maps with and without default images.
ScrollInit ==
    /\ InitWorld(LayerPools, ExplicitImages, { FALSE }, ViewportSizes, FALSE,
                 { <<>> })
    /\ InitFont

ScrollNext ==
    \/ Update
    \/ Render
    \/ MoveCamera

ScrollSpec == ScrollInit /\ [][ScrollNext]_vars

\* Selection: the selection accessors between frames, on maps whose images
\* are all explicit.
SelectionInit ==
    /\ InitWorld({ <<{}, {}>> }, ExplicitImages, BOOLEAN, { <<8, 4>> }, FALSE,
                 { <<>> })
    /\ InitFont

SelectionNext ==
    \/ Update
    \/ Render
    \/ SetSelection
    \/ ResetSelection
    \/ MoveMouse

SelectionSpec == SelectionInit /\ [][SelectionNext]_vars

\* Cameras: the frame loop of a world that is handed further cameras, while
\* the game enables and disables them.
CamerasInit ==
    /\ InitWorld({ <<{}, {}>> }, { <<<<1, 1, 1>>, 1>> }, BOOLEAN, { <<8, 4>> },
                 TRUE, { <<>> })
    /\ InitFont

CamerasNext ==
    \/ Update
    \/ Render
    \/ AddCamera
    \/ SetCameraEnabled

CamerasSpec == CamerasInit /\ [][CamerasNext]_vars

\* Game objects: the frame loop while the game attaches and detaches game
\* objects and enables and disables the camera.
ObjectsInit ==
    /\ InitWorld({ <<{}, {}>> }, { <<<<1, 1, 1>>, 1>> }, { TRUE }, { <<8, 4>> },
                 FALSE, { <<>> })
    /\ InitFont

ObjectsNext ==
    \/ Update
    \/ Render
    \/ AddObject
    \/ RemoveObject
    \/ SetCameraEnabled

ObjectsSpec == ObjectsInit /\ [][ObjectsNext]_vars

\* The visible range: update and render on the wide and tall maps, through
\* viewports of even and odd sizes, while the game scrolls the camera.
RangeInit ==
    /\ InitWorldOn(WideMapSizes, { <<{}, {}>> }, { <<>>, <<<<1, 1, 1>>, 1>> },
                   { FALSE }, OddViewportSizes, FALSE, { <<>> })
    /\ InitFont

RangeNext ==
    \/ Update
    \/ Render
    \/ MoveCamera

RangeSpec == RangeInit /\ [][RangeNext]_vars

\* The cursor: update and render while the cursor moves and the game scrolls
\* the camera, on maps with and without default images.
CursorInit ==
    /\ InitWorld({ <<{}, {}>>, <<{}, {3}>> }, ExplicitImages, { FALSE },
                 { <<8, 4>> }, FALSE, { <<>> })
    /\ InitFont

CursorNext ==
    \/ Update
    \/ Render
    \/ MoveCamera
    \/ MoveMouse

CursorSpec == CursorInit /\ [][CursorNext]_vars

-----------------------------------------------------------------------------
(* Specification of the font *)

\* The construction of a font, beside a world nothing happens to.
FontInit ==
    /\ InitWorld({ <<{}, {}>> }, { <<>> }, { FALSE }, { <<8, 4>> }, FALSE,
                 { <<>> })
    /\ InitFont

FontNext ==
    \/ GenerateGlyphSurfaces
    \/ GenerateGlyphSrcrects

FontSpec == FontInit /\ [][FontNext]_vars

\* The whole life of a font whose glyphs have the sizes of EdgeGlyphSizes:
\* create, with every outcome of the allocations, and destroy.
EdgeFontNext ==
    \/ GenerateEdgeGlyphSurfaces
    \/ GenerateGlyphSrcrects
    \/ GenerateGlyphTextures
    \/ Destroy

EdgeFontSpec == FontInit /\ [][EdgeFontNext]_vars

-----------------------------------------------------------------------------
(* Claims about the world *)

\* No camera of the world is enabled.
NoCameraEnabled == \A i \in 1..Len(cameras) : ~cameras[i].enabled

\* C1: has_selection() is false exactly when get_selection() is the sentinel
\* pair (INT_MAX, INT_MAX), and right after reset_selection() the selection is
\* the sentinel pair and has_selection() is false.
C1_NoSelectionIffSentinel ==
    /\ ~has_selection(selected_world_tile) <=> (get_selection = Sentinel)
    /\ last_call = "reset_selection" =>
          get_selection = Sentinel /\ ~has_selection(selected_world_tile)

\* C2: every tile index render passes to map->get_tile lies inside the map,
\* 0 <= x < map_width and 0 <= y < map_height, wherever the camera is.
C2_TileReadsInsideMap ==
    \A r \in tile_reads : InBounds(r[1], r[2])

\* C6: a (tile, layer) cell that has an image id keeps it through every later
\* step, and no render asks for a random default image for it again.
C6_DefaultImageKept ==
    [][\A c \in Cells :
          tiles[c] # NoImage => tiles'[c] = tiles[c] /\ c \notin consulted']_vars

\* A render drew a cell with the default image an earlier render stored on
\* it, without asking for a random image.
C6_Witness ==
    /\ last_call = "render"
    /\ \E c \in Cells :
          /\ tiles[c] \in map.pools[c[3]]
          /\ c \notin consulted
          /\ <<c[1], c[2]>> \in tile_reads
          /\ \E k \in 1..Len(calls) :
                calls[k] = Call("tile", c[1], c[2], c[3], tiles[c])

\* C7: update_called is false whenever a render() has returned (so that a
\* render warns exactly when no update came since the render before it).
C7_RenderClearsUpdateCalled ==
    last_call = "render" => update_called = FALSE

\* C8: a render() while no camera is enabled makes no call on the renderer or
\* on a game object, reads no tile, ends without a fault, and leaves the
\* selection and every tile's image ids as they were.
C8_NoCameraRenderIsNoOp ==
    [][(last_call' = "render" /\ NoCameraEnabled) =>
          /\ calls' = <<>>
          /\ tile_reads' = {}
          /\ consulted' = {}
          /\ ~crashed'
          /\ selected_world_tile' = selected_world_tile
          /\ tiles' = tiles]_vars

\* A render returned in a world whose camera is disabled, with game objects
\* attached, on a map with an image to draw and the cursor on a tile.
C8_Witness ==
    /\ last_call = "render"
    /\ cameras # <<>>
    /\ objects # <<>>
    /\ NoCameraEnabled
    /\ calls = <<>>
    /\ \E c \in Cells : tiles[c] # NoImage
    /\ mouse_position = <<2, 2>>

\* The positions in the log of the last render at which a hit test was made,
\* and those at which it succeeded.
HitTests(log) == { k \in 1..Len(log) : log[k].op = "hittest" }
Hits(log) == { k \in HitTests(log) : log[k].arg }

\* Row-major ascending order of tiles, and definition order of layers.
Precedes(a, b) ==
    \/ a.y < b.y
    \/ a.y = b.y /\ a.x < b.x
    \/ a.y = b.y /\ a.x = b.x /\ a.layer < b.layer

\* C12: in every render() that returns, the hit tests are made in row-major
\* ascending order of the tiles (rows outer, columns inner) and in definition
\* order of the layers; if one of them succeeds the selection afterwards is
\* the tile of the last one that did, and if none succeeds the selection is
\* what it was before the render().
C12_LastHitIsSelected ==
    [][(last_call' = "render" /\ ~crashed') =>
          /\ \A j, k \in HitTests(calls') : j < k => Precedes(calls'[j], calls'[k])
          /\ Hits(calls') # {} =>
                \E k \in Hits(calls') :
                    /\ \A j \in Hits(calls') : j <= k
                    /\ selected_world_tile' = <<calls'[k].x, calls'[k].y>>
          /\ Hits(calls') = {} => selected_world_tile' = selected_world_tile]_vars

\* A render() made hit tests on two rows and two columns, one of them
\* succeeded and a later one failed, and the selection is the tile hit.
C12_Witness ==
    /\ last_call = "render"
    /\ \E i, j, k \in HitTests(calls) :
          /\ calls[i].y # calls[j].y
          /\ calls[i].x # calls[k].x
    /\ \E k \in Hits(calls) :
          /\ \A j \in Hits(calls) : j <= k
          /\ \E j \in HitTests(calls) : j > k
          /\ selected_world_tile = <<calls[k].x, calls[k].y>>

\* A render() made hit tests, none succeeded, and the selection an earlier
\* render() made is still there.
C12_WitnessNoHit ==
    /\ last_call = "render"
    /\ HitTests(calls) # {}
    /\ Hits(calls) = {}
    /\ has_selection(selected_world_tile)

\* The in-bounds tiles whose diamond footprint contains the cursor.
TilesUnderCursor ==
    { tp \in (0..(map.width - 1)) \X (0..(map.height - 1)) :
        tile_hittest_by_viewport(world_tile_to_viewport_pixels(tp), mouse_position) }

\* The main camera's visible range is the whole map.
CameraCoversMap ==
    /\ get_main_camera(cameras) # NoCamera
    /\ LET cam == cameras[get_main_camera(cameras)]
       IN  /\ cam.current_x = 0 /\ cam.current_y = 0
           /\ \A ub \in UBOutcomesFor(cam) :
                 Len(Visits(cam, ub)) = map.width * map.height

\* C13: on a map with no default images and from the no-selection state, a
\* render() that follows an update(), through a camera covering the whole
\* map, leaves as selection an in-bounds tile whose diamond footprint contains
\* the cursor when there is such a tile, whether or not it has an image on
\* any layer, and leaves no selection when there is none.
C13_TileUnderCursorIsSelected ==
    [][( /\ \A l \in Layers : ~layer_has_default_images(l)
         /\ ~has_selection(selected_world_tile)
         /\ last_call = "update"
         /\ CameraCoversMap
         /\ last_call' = "render" ) =>
            IF TilesUnderCursor # {}
            THEN selected_world_tile' \in TilesUnderCursor
            ELSE ~has_selection(selected_world_tile')]_vars

\* The positions in a render's log at which a tile image is drawn, and those
\* at which the image of cell c is.
TileDraws(log) == { k \in 1..Len(log) : log[k].op = "tile" }
TileDrawsOf(log, c) ==
    { k \in TileDraws(log) : <<log[k].x, log[k].y, log[k].layer>> = c }

\* The exclusive upper bound of the visible tile range along one axis: the
\* value of the expression at lines 88-96, truncated, and clamped to the map.
VisibleBound(current, viewport, tile, map_dim) ==
    Min(TruncDiv(MaxTilesFloatNum(current, viewport, tile), tile), map_dim)

\* The (tile, layer) cells inside the visible bounds of the main camera: the
\* cells of the map from the camera's scroll position up to that bound.
VisibleCells ==
    LET cam == cameras[get_main_camera(cameras)]
    IN  { c \in Cells :
            /\ cam.current_x <= c[1]
            /\ c[1] < VisibleBound(cam.current_x, cam.width, map.tile_width, map.width)
            /\ cam.current_y <= c[2]
            /\ c[2] < VisibleBound(cam.current_y, cam.height, map.tile_height, map.height) }

\* The cells render has an image for: an explicit one, or one of the pool of
\* the cell's layer.
CellsToDraw ==
    { c \in VisibleCells : tiles[c] # NoImage \/ layer_has_default_images(c[3]) }

\* The map's only image is one explicit image on one tile.
OneExplicitImage ==
    /\ \A l \in Layers : ~layer_has_default_images(l)
    /\ Cardinality({ c \in Cells : tiles[c] # NoImage }) = 1

\* C14: a render() through a main camera that returns draws a tile image
\* exactly once for each (tile, layer) cell inside the visible bounds whose
\* tile has an explicit image or whose layer has a default-image pool, and
\* for no other cell; on a map whose only image is one explicit image, inside
\* the visible bounds, that is exactly one tile draw.
C14_OneDrawPerImageCell ==
    [][( /\ last_call' = "render"
         /\ get_main_camera(cameras) # NoCamera
         /\ ~crashed' ) =>
            /\ \A c \in Cells :
                  Cardinality(TileDrawsOf(calls', c))
                      = IF c \in CellsToDraw THEN 1 ELSE 0
            /\ \A k \in TileDraws(calls') :
                  <<calls'[k].x, calls'[k].y, calls'[k].layer>> \in Cells
            /\ (OneExplicitImage /\ CellsToDraw # {}) =>
                  Cardinality(TileDraws(calls')) = 1]_vars

\* C15: a render() changes nothing in the tile map except that it writes an
\* image id of the layer's pool into cells that had no image, lie inside the
\* visible bounds and whose layer has a default-image pool: a cell that has an
\* image id is not overwritten and a cell of a layer without a pool is not
\* written.
C15_RenderOnlyCachesDefaults ==
    [][last_call' = "render" =>
          /\ map' = map
          /\ \A c \in Cells :
                tiles'[c] # tiles[c] =>
                    /\ tiles[c] = NoImage
                    /\ get_main_camera(cameras) # NoCamera
                    /\ c \in VisibleCells
                    /\ layer_has_default_images(c[3])
                    /\ tiles'[c] \in map.pools[c[3]]]_vars

\* The alpha of the selection image's texture after the calls of a log: that
\* of the last SDL_SetTextureAlphaMod, full opacity when there was none.
RECURSIVE AlphaAfter(_, _)
AlphaAfter(log, k) ==
    IF k = 0 THEN 255
    ELSE IF log[k].op = "alpha" THEN log[k].arg
    ELSE AlphaAfter(log, k - 1)

\* C16: in the calls of a render() the selection image is drawn only when the
\* map has one, only on the first layer, and only right after a successful
\* hit test of the same tile on that layer; the draw is preceded by setting
\* the alpha to 90 and followed by setting it to 255, the alpha is 90 at no
\* other call, and it is 255 when the render() has returned.
C16_HighlightOnlyOnHit ==
    last_call = "render" =>
        /\ \A k \in 1..Len(calls) :
              /\ calls[k].op = "highlight" =>
                    /\ map.selection_image
                    /\ calls[k].layer = 1
                    /\ k > 2
                    /\ k < Len(calls)
                    /\ calls[k - 2] = Call("hittest", calls[k].x, calls[k].y, 1, TRUE)
                    /\ calls[k - 1] = Call("alpha", calls[k].x, calls[k].y, 1, 90)
                    /\ calls[k + 1] = Call("alpha", calls[k].x, calls[k].y, 1, 255)
              /\ calls[k].op \notin { "highlight", "alpha" } =>
                    AlphaAfter(calls, k - 1) = 255
              /\ (calls[k].op = "alpha" /\ calls[k].arg # 255) =>
                    /\ calls[k].arg = 90
                    /\ k < Len(calls)
                    /\ calls[k + 1].op = "highlight"
        /\ AlphaAfter(calls, Len(calls)) = 255

\* A render() drew the selection image over a tile and went on to draw and
\* hit-test the tile's second layer and the game objects.
C16_Witness ==
    /\ last_call = "render"
    /\ \E k \in 1..Len(calls) :
          /\ calls[k].op = "highlight"
          /\ \E j \in (k + 1)..Len(calls) :
                /\ calls[j].op = "hittest"
                /\ calls[j].layer = 2
                /\ <<calls[j].x, calls[j].y>> = <<calls[k].x, calls[k].y>>
          /\ \E j \in (k + 1)..Len(calls) : calls[j].op = "on_render"

\* The positions in a render's log of the on_render calls, and of the draws of
\* tile and selection images.
ObjectRenders(log) == { k \in 1..Len(log) : log[k].op = "on_render" }
ImageDraws(log) == { k \in 1..Len(log) : log[k].op \in { "tile", "highlight" } }

\* The game objects attached to the world, and the place in the attach order
\* of an attached one.
Attached == { objects[i] : i \in 1..Len(objects) }
AttachPlace(obj) == CHOOSE i \in 1..Len(objects) :
                        objects[i] = obj /\ \A j \in 1..(i - 1) : objects[j] # obj

\* C17: whatever add_object and remove_object calls came before, a render()
\* with a main camera calls on_render exactly once for each game object that
\* is attached and for no other, in the order the objects were attached,
\* after the last draw of a tile or selection image and before the clip
\* rectangle is removed.
C17_OnRenderOncePerObject ==
    (last_call = "render" /\ get_main_camera(cameras) # NoCamera /\ ~crashed) =>
        /\ \A obj \in GameObjects :
              Cardinality({ k \in ObjectRenders(calls) : calls[k].arg = obj })
                  = IF obj \in Attached THEN 1 ELSE 0
        /\ \A j, k \in ObjectRenders(calls) :
              j < k => AttachPlace(calls[j].arg) < AttachPlace(calls[k].arg)
        /\ \A k \in ObjectRenders(calls) :
              /\ \A d \in ImageDraws(calls) : d < k
              /\ k < Len(calls)
        /\ calls # <<>>
        /\ calls[Len(calls)] = Call("clip", 0, 0, 0, 0)
        /\ \A k \in 1..(Len(calls) - 1) : calls[k] # Call("clip", 0, 0, 0, 0)

\* The least integer that is no less than num / den (num >= 0, den > 0).
CeilDiv(num, den) == (num + den - 1) \div den

\* The exclusive upper bound of the visible tile range along one axis as the
\* specification gives it:
\*   min(map_dimension, scroll + ceil((viewport + tile) / (tile / 2)) + 1)
CeilBound(current, viewport, tile, map_dim) ==
    Min(map_dim, current + CeilDiv(2 * (viewport + tile), tile) + 1)

\* C18: for a scroll position that is not negative, the tiles a render()
\* fetches are those of the columns from scroll_x up to, and without,
\*   min(map_width, scroll_x + ceil((viewport_w + tile_w) / (tile_w / 2)) + 1)
\* and of the rows from scroll_y up to, and without, the same bound in y,
\* whether or not (viewport + tile) is a multiple of half the tile size.
C18_UpperBoundIsCeiling ==
    LET cam == cameras[get_main_camera(cameras)]
    IN  ( /\ last_call = "render"
          /\ get_main_camera(cameras) # NoCamera
          /\ cam.current_x >= 0
          /\ cam.current_y >= 0 ) =>
            tile_reads =
                (cam.current_x ..
                    (CeilBound(cam.current_x, cam.width, map.tile_width, map.width) - 1))
                \X
                (cam.current_y ..
                    (CeilBound(cam.current_y, cam.height, map.tile_height, map.height) - 1))

\* C11: at every moment get_main_camera() returns the first camera in
\* insertion order whose enabled flag is true (so at most one camera is the
\* main one), or none when no camera is enabled; and when update() has
\* returned, the transform holds exactly that camera.
C11_MainCameraIsFirstEnabled ==
    LET main == get_main_camera(cameras)
    IN  /\ NoCameraEnabled => main = NoCamera
        /\ ~NoCameraEnabled =>
              /\ main \in 1..Len(cameras)
              /\ cameras[main].enabled
              /\ \A j \in 1..(main - 1) : ~cameras[j].enabled
        /\ last_call = "update" => transform_camera = main

\* update() returned in a world of two cameras whose first is disabled and
\* whose second is enabled, and the transform holds the second.
C11_Witness ==
    /\ last_call = "update"
    /\ Len(cameras) = 2
    /\ ~cameras[1].enabled
    /\ cameras[2].enabled
    /\ transform_camera = 2

-----------------------------------------------------------------------------
(* Claims about the glyph atlas builder *)

\* generate_glyph_srcrects has run.
Packed == font_pc = "srcrects"

Glyphs == 1..Len(font_glyphs)

\* The rectangle lies inside a page of the given size.
InsidePage(r, page) ==
    /\ r.x >= 0
    /\ r.y >= 0
    /\ r.x + r.w <= page.w
    /\ r.y + r.h <= page.h

\* C3: after generate_glyph_srcrects every glyph's texture_index refers to an
\* entry of font_info.textures and its source rectangle lies inside the bounds
\* recorded for that page.
C3_GlyphsInsideTheirPage ==
    Packed =>
        \A i \in Glyphs :
            /\ font_glyphs[i].texture_index + 1 \in 1..Len(font_textures)
            /\ InsidePage(font_glyphs[i].srcrect,
                          font_textures[font_glyphs[i].texture_index + 1].rect)

\* Two rectangles share a region of non-zero area.
Overlap(a, b) ==
    /\ a.x < b.x + b.w
    /\ b.x < a.x + a.w
    /\ a.y < b.y + b.h
    /\ b.y < a.y + a.h

HasArea(r) == r.w > 0 /\ r.h > 0

\* C4: after generate_glyph_srcrects the source rectangles of two distinct
\* glyphs of non-zero area on the same page do not overlap.
C4_GlyphsDoNotOverlap ==
    Packed =>
        \A i, j \in Glyphs :
            ( /\ i # j
              /\ font_glyphs[i].texture_index = font_glyphs[j].texture_index
              /\ HasArea(font_glyphs[i].srcrect)
              /\ HasArea(font_glyphs[j].srcrect) )
            => ~Overlap(font_glyphs[i].srcrect, font_glyphs[j].srcrect)

\* A page holds a row of two glyphs of different heights and, under it, a
\* glyph of a second row that spans the columns of both.
C4_Witness ==
    /\ Packed
    /\ \E i, j, k \in Glyphs :
          /\ i < j /\ j < k
          /\ font_glyphs[i].texture_index = font_glyphs[k].texture_index
          /\ font_glyphs[j].texture_index = font_glyphs[k].texture_index
          /\ HasArea(font_glyphs[i].srcrect)
          /\ HasArea(font_glyphs[j].srcrect)
          /\ HasArea(font_glyphs[k].srcrect)
          /\ font_glyphs[i].srcrect.y = font_glyphs[j].srcrect.y
          /\ font_glyphs[i].srcrect.h > font_glyphs[j].srcrect.h
          /\ font_glyphs[k].srcrect.y > font_glyphs[i].srcrect.y
          /\ font_glyphs[k].srcrect.x < font_glyphs[i].srcrect.x + font_glyphs[i].srcrect.w

\* C5: no page recorded by generate_glyph_srcrects is wider or taller than
\* 2048.
C5_PagesWithinMaximum ==
    Packed =>
        \A p \in 1..Len(font_textures) :
            /\ font_textures[p].rect.w <= max_texture_width
            /\ font_textures[p].rect.h <= max_texture_height


\* The shelf packing the two scenarios below are stated against: glyphs go
\* left to right; a glyph that would pass the page's right edge opens a new
\* row under the tallest glyph of the row it leaves; a glyph that would pass
\* the page's bottom edge opens a new page.  sh holds the cursor, the height
\* of the current row, the current page and the place of every glyph so far.
ShelfPlace(sh, g) ==
    LET wraps == sh.x + g.w > max_texture_width
        x1 == IF wraps THEN 0 ELSE sh.x
        y1 == IF wraps THEN sh.y + sh.row_height ELSE sh.y
        row_height1 == IF wraps THEN g.h ELSE Max(sh.row_height, g.h)
        breaks == y1 + g.h > max_texture_height
        x2 == IF breaks THEN 0 ELSE x1
        y2 == IF breaks THEN 0 ELSE y1
        page1 == IF breaks THEN sh.page + 1 ELSE sh.page
    IN  [x |-> x2 + g.w, y |-> y2,
         row_height |-> IF breaks THEN g.h ELSE row_height1,
         page |-> page1,
         places |-> Append(sh.places, [page |-> page1, x |-> x2, y |-> y2])]

RECURSIVE ShelfFrom(_, _)
ShelfFrom(sh, i) ==
    IF i > Len(font_glyphs) THEN sh
    ELSE ShelfFrom(ShelfPlace(sh, font_glyphs[i]), i + 1)

Shelf == ShelfFrom([x |-> 0, y |-> 0, row_height |-> 0, page |-> 0,
                    places |-> <<>>], 1)

RECURSIVE WidthFrom(_)
WidthFrom(i) ==
    IF i > Len(font_glyphs) THEN 0 ELSE font_glyphs[i].w + WidthFrom(i + 1)

\* Every glyph has pixels and is narrower and shorter than a page.
GlyphsSmallerThanPage ==
    \A i \in Glyphs :
        /\ font_glyphs[i].w > 0 /\ font_glyphs[i].w < max_texture_width
        /\ font_glyphs[i].h > 0 /\ font_glyphs[i].h < max_texture_height

\* The glyphs are too wide for one row, and their rows, one under the other,
\* stay below the page height.
NeedsRowsOnOnePage ==
    /\ GlyphsSmallerThanPage
    /\ WidthFrom(1) > max_texture_width
    /\ Shelf.page = 0
    /\ Shelf.y + Shelf.row_height < max_texture_height

\* The first glyph that opens a second row.
FirstOfSecondRow ==
    CHOOSE k \in Glyphs :
        /\ Shelf.places[k].y > 0
        /\ \A i \in 1..(k - 1) : Shelf.places[i].y = 0

\* C9: glyphs smaller than a page, too wide for one row and with rows that
\* stay below the page height, end on exactly one page, all with
\* texture_index 0, and the first glyph that does not fit the first row is
\* at x = 0 with a y greater than that of the glyph before it.
C9_WidthOverflowOpensRow ==
    (Packed /\ NeedsRowsOnOnePage) =>
        /\ Len(font_textures) = 1
        /\ \A i \in Glyphs : font_glyphs[i].texture_index = 0
        /\ font_glyphs[FirstOfSecondRow].srcrect.x = 0
        /\ font_glyphs[FirstOfSecondRow].srcrect.y
              > font_glyphs[FirstOfSecondRow - 1].srcrect.y

\* The glyphs' rows pass the page height and fit two pages.
NeedsTwoPages ==
    /\ GlyphsSmallerThanPage
    /\ Shelf.page = 1

\* The glyph that passes the bottom edge of the first page.
FirstOfSecondPage ==
    CHOOSE k \in Glyphs :
        /\ Shelf.places[k].page = 1
        /\ \A i \in 1..(k - 1) : Shelf.places[i].page = 0

\* C10: glyphs smaller than a page whose rows pass the page height and fit
\* two pages end on exactly two pages; the glyph that passes the height is
\* at (0, 0) with texture_index 1, and the height recorded for the first page
\* is less than the page height.
C10_HeightOverflowOpensPage ==
    (Packed /\ NeedsTwoPages) =>
        /\ Len(font_textures) = 2
        /\ font_glyphs[FirstOfSecondPage].texture_index = 1
        /\ font_glyphs[FirstOfSecondPage].srcrect.x = 0
        /\ font_glyphs[FirstOfSecondPage].srcrect.y = 0
        /\ font_textures[1].rect.h < max_texture_height

\* The cursor and the page at which generate_glyph_srcrects comes to the i-th
\* glyph: behind the glyph before it, on that glyph's page.
CursorAt(i) ==
    IF i = 1 THEN [x |-> 0, y |-> 0, texture_index |-> 0]
    ELSE [x |-> font_glyphs[i - 1].srcrect.x + font_glyphs[i - 1].srcrect.w,
          y |-> font_glyphs[i - 1].srcrect.y,
          texture_index |-> font_glyphs[i - 1].texture_index]

\* C19: a glyph is moved to a new row only when x + w > 2048 at the cursor,
\* and the page is finalized only when y + h > 2048: a glyph with
\* x + w <= 2048 and y + h <= 2048, also one whose right or bottom edge lands
\* exactly on 2048, is placed at the cursor, in the current row and on the
\* current page.
C19_ExactFitStays ==
    Packed =>
        \A i \in Glyphs :
            ( /\ CursorAt(i).x + font_glyphs[i].w <= max_texture_width
              /\ CursorAt(i).y + font_glyphs[i].h <= max_texture_height ) =>
                /\ font_glyphs[i].srcrect.x = CursorAt(i).x
                /\ font_glyphs[i].srcrect.y = CursorAt(i).y
                /\ font_glyphs[i].texture_index = CursorAt(i).texture_index

\* C20: when create() has returned, with free_glyph_surfaces = true, no glyph
\* holds a surface any more: every glyph's bitmap is released and its surface
\* pointer is null, whatever the outcome of the page-surface and texture
\* allocations was, also when the surface of the glyph's page was not created.
C20_GlyphSurfacesReleased ==
    font_pc = "created" => \A i \in Glyphs : ~font_glyphs[i].surface

=============================================================================
